---------------------------- MODULE Spec2Model ----------------------------
(***************************************************************************)
(* The request-logging policy of azblob (policy_request_log.go): the query *)
(* redactor redactSigQueryParam, the copy made by prepareRequestForLogging *)
(* and the per-attempt instrumentation of requestLogPolicy.Do.             *)
(*                                                                         *)
(* Strings are sequences of one-character strings, so that ToLower,        *)
(* Contains, url.ParseQuery and Values.Encode are computed character by    *)
(* character.  Durations and instants are counted in whole seconds.        *)
(***************************************************************************)
EXTENDS Integers, Sequences, FiniteSets, TLC

VARIABLES
    options,         \* RequestLogOptions.LogWarningIfTryOverThreshold given to the factory
    o,               \* requestLogPolicy.o.LogWarningIfTryOverThreshold
    try,             \* requestLogPolicy.try
    operationStart,  \* requestLogPolicy.operationStart
    now,             \* the wall clock read by time.Now()
    rawQuery,        \* URL.RawQuery of the live request the caller holds
    callerQuery,     \* the query the caller put in the request (history)
    call,            \* the activation of Do of each caller: position and locals
    classified,      \* the classifications recorded so far (history)
    finished,        \* the durations of the attempts finished so far, in order (history)
    contract,        \* the Do invocations so far, and whether two overlapped (history)
    redaction,       \* one call of redactSigQueryParam: input, found, output
    capture          \* one call of stack(): the goroutine's stack, buf, n

vars == <<options, o, try, operationStart, now, rawQuery, callerQuery, call,
          classified, finished, contract, redaction, capture>>

historyVars == <<classified, finished, contract>>

policyVars == <<options, o, try, operationStart, now, rawQuery, callerQuery,
                call, historyVars>>

----------------------------------------------------------------------------
(* Bounds of the model. *)

MaxParams == 3      \* parameters in a query string given to the redactor
MaxTries == 2       \* attempts handed to one policy instance
MaxClock == 4       \* the last instant the clock reaches
MaxThreshold == 3   \* the largest explicit threshold configured
NumCallers == 2     \* activations of Do the model distinguishes
MaxStackLen == 4100 \* bytes of the longest stack trace given to stack()

----------------------------------------------------------------------------
(* Characters and strings. *)

UpperLetters == <<"A","B","C","D","E","F","G","H","I","J","K","L","M",
                  "N","O","P","Q","R","S","T","U","V","W","X","Y","Z">>
LowerLetters == <<"a","b","c","d","e","f","g","h","i","j","k","l","m",
                  "n","o","p","q","r","s","t","u","v","w","x","y","z">>

\* The characters of the model in ASCII order.
Ascii == <<"%", "&", "2", "3", "6", "=", "?">> \o UpperLetters \o LowerLetters

Range(s) == {s[i] : i \in 1..Len(s)}

\* The place of each character in ASCII order
CodeOf == [c \in Range(Ascii) |-> CHOOSE i \in 1..Len(Ascii) : Ascii[i] = c]

Code(c) == CodeOf[c]

\* unicode.ToLower on each ASCII character of the model
LowerOf ==
    [c \in Range(Ascii) |->
        IF c \in Range(UpperLetters)
        THEN LowerLetters[CHOOSE i \in 1..Len(UpperLetters) : UpperLetters[i] = c]
        ELSE c]

ToLowerChar(c) == LowerOf[c]

\* strings.ToLower
ToLower(s) == [i \in 1..Len(s) |-> ToLowerChar(s[i])]

\* strings.Index, 0 when sub does not occur in s
Index(s, sub) ==
    LET at == {i \in 1..(Len(s) - Len(sub) + 1) : SubSeq(s, i, i + Len(sub) - 1) = sub}
    IN  IF at = {} THEN 0 ELSE CHOOSE i \in at : \A j \in at : i <= j

\* strings.Contains
Contains(s, sub) == Index(s, sub) # 0

\* strings.EqualFold on ASCII strings
EqualFold(s, t) == ToLower(s) = ToLower(t)

\* byte-wise s < t, the order sort.Strings uses
StrLess(s, t) ==
    \E i \in 1..(Len(s) + 1) :
        /\ i <= Len(t)
        /\ \A j \in 1..(i - 1) : s[j] = t[j]
        /\ (i = Len(s) + 1 \/ Code(s[i]) < Code(t[i]))

----------------------------------------------------------------------------
(* net/url, as far as redactSigQueryParam uses it.  The model's queries    *)
(* hold letters, "=", "&" and "?": no "%", "+" or ";", so QueryUnescape    *)
(* changes nothing and ParseQuery reports no error.                        *)

\* strings.Cut(s, sep) for a one-character separator
Cut(s, sep) ==
    LET i == Index(s, <<sep>>)
    IN  IF i = 0
        THEN [before |-> s, after |-> <<>>, found |-> FALSE]
        ELSE [before |-> SubSeq(s, 1, i - 1),
              after  |-> SubSeq(s, i + 1, Len(s)),
              found  |-> TRUE]

\* The "key=value" settings of a query, in order; empty settings are skipped.
RECURSIVE Settings(_)
Settings(query) ==
    IF query = <<>> THEN <<>>
    ELSE LET c == Cut(query, "&")
         IN  (IF c.before = <<>> THEN <<>> ELSE <<c.before>>) \o Settings(c.after)

\* url.ParseQuery: each key with its values in order of appearance
ParseQuery(query) ==
    LET settings == Settings(query)
        pairs == [i \in 1..Len(settings) |->
                     LET c == Cut(settings[i], "=")
                     IN  [key |-> c.before, value |-> c.after]]
        keys == {pairs[i].key : i \in 1..Len(pairs)}
    IN  [k \in keys |->
            LET mine == SelectSeq(pairs, LAMBDA p : p.key = k)
            IN  [i \in 1..Len(mine) |-> mine[i].value]]

\* url.QueryEscape on one character: letters and digits stay, the rest is
\* percent-encoded
EscapeChar(c) ==
    CASE c = "?" -> <<"%", "3", "F">>
      [] c = "=" -> <<"%", "3", "D">>
      [] c = "&" -> <<"%", "2", "6">>
      [] OTHER   -> <<c>>

RECURSIVE QueryEscape(_)
QueryEscape(s) ==
    IF s = <<>> THEN <<>> ELSE EscapeChar(Head(s)) \o QueryEscape(Tail(s))

\* sort.Strings over the keys of a Values map
RECURSIVE SortedKeys(_)
SortedKeys(keys) ==
    IF keys = {} THEN <<>>
    ELSE LET least == CHOOSE k \in keys : \A l \in keys \ {k} : StrLess(k, l)
         IN  <<least>> \o SortedKeys(keys \ {least})

RECURSIVE EncodeKey(_, _)
EncodeKey(key, vs) ==
    IF vs = <<>> THEN <<>>
    ELSE <<QueryEscape(key) \o <<"=">> \o QueryEscape(Head(vs))>>
         \o EncodeKey(key, Tail(vs))

RECURSIVE Join(_)
Join(parts) ==
    IF parts = <<>> THEN <<>>
    ELSE IF Len(parts) = 1 THEN Head(parts)
    ELSE Head(parts) \o <<"&">> \o Join(Tail(parts))

RECURSIVE EncodeKeys(_, _)
EncodeKeys(values, keys) ==
    IF keys = <<>> THEN <<>>
    ELSE EncodeKey(Head(keys), values[Head(keys)]) \o EncodeKeys(values, Tail(keys))

\* url.Values.Encode: "key=value" joined by "&", sorted by key
Encode(values) == Join(EncodeKeys(values, SortedKeys(DOMAIN values)))

----------------------------------------------------------------------------
(* The query redactor. *)

Sig == <<"s", "i", "g">>
REDACTED == <<"R", "E", "D", "A", "C", "T", "E", "D">>

\* The loop of lines 59-63: every key that folds to "sig" gets the one value
\* REDACTED.
RedactValues(values) ==
    [name \in DOMAIN values |->
        IF EqualFold(name, Sig) THEN <<REDACTED>> ELSE values[name]]

\* redactSigQueryParam(rawQuery) (bool, string)
redactSigQueryParam(q) ==
    LET lowered == ToLower(q)
        sigFound == Contains(lowered, <<"?">> \o Sig \o <<"=">>)
                    \/ Contains(lowered, <<"&">> \o Sig \o <<"=">>)
    IN  IF ~sigFound
        THEN [found |-> FALSE, query |-> lowered]
        ELSE [found |-> TRUE, query |-> Encode(RedactValues(ParseQuery(lowered)))]

\* As prepareRequestForLogging, without the request.Copy() of line 71
prepareWithoutCopy(liveQuery) ==
    LET r == redactSigQueryParam(liveQuery)
    IN  IF r.found
        THEN [live |-> r.query, logged |-> r.query]
        ELSE [live |-> liveQuery, logged |-> liveQuery]

\* prepareRequestForLogging(request): the query of the request it returns
\* for rendering (logged) and the query the live request holds afterwards
\* (live).  Only request.Copy() is written to.
prepareRequestForLogging(liveQuery) ==
    LET r == redactSigQueryParam(liveQuery)
    IN  IF r.found
        THEN [live |-> liveQuery, logged |-> r.query]
        ELSE [live |-> liveQuery, logged |-> liveQuery]

----------------------------------------------------------------------------
(* Severities, status codes and the outcome of the next pipeline stage. *)

LogInfo == "LogInfo"
LogWarning == "LogWarning"
LogError == "LogError"
Severities == {LogInfo, LogWarning, LogError}

StatusNotFound == 404
StatusConflict == 409
StatusPreconditionFailed == 412
StatusRequestedRangeNotSatisfiable == 416

DefaultThresholdSeconds == 3

\* The status codes the next stage answers with: each class of line 118 and
\* the codes at its edges.
StatusCodes == {200, 399, 400, StatusNotFound, StatusConflict,
                StatusPreconditionFailed, StatusRequestedRangeNotSatisfiable,
                499, 500, 599, 600}

NoError == "nil"
Errors == {"connection reset"}
NilResponse == [nil |-> TRUE, StatusCode |-> 0]

\* What p.node.Do can return: a response and no error, or an error and no
\* response.
Outcomes ==
    {[response |-> [nil |-> FALSE, StatusCode |-> sc], err |-> NoError] : sc \in StatusCodes}
    \cup {[response |-> NilResponse, err |-> e] : e \in Errors}

Thresholds == (-1)..MaxThreshold

\* As NewRequestLogPolicyFactory, with the default of line 28 left out
FactoryWithoutDefault(threshold) == threshold

\* NewRequestLogPolicyFactory(o): the threshold the policies it makes hold
NewRequestLogPolicyFactory(threshold) ==
    IF threshold = 0 THEN DefaultThresholdSeconds ELSE threshold

----------------------------------------------------------------------------
(* requestLogPolicy.Do, lines 98-154, as functions of the locals. *)

\* The condition of line 118
IsErrorStatus(sc) ==
    \/ /\ sc >= 400 /\ sc <= 499
       /\ sc # StatusNotFound
       /\ sc # StatusConflict
       /\ sc # StatusPreconditionFailed
       /\ sc # StatusRequestedRangeNotSatisfiable
    \/ (sc >= 500 /\ sc <= 599)

\* As DoClassify, with the threshold test of line 106 made after the status
\* test instead of before it
DoClassifySlowLast(err, response, tryDuration, threshold) ==
    LET status == IF err = NoError
                  THEN IF IsErrorStatus(response.StatusCode)
                       THEN [severity |-> LogError, logMsg |-> "OPERATION ERROR"]
                       ELSE [severity |-> LogInfo, logMsg |-> "SUCCESSFUL OPERATION"]
                  ELSE [severity |-> LogError, logMsg |-> "NETWORK ERROR"]
    IN  IF threshold > 0 /\ tryDuration > threshold
        THEN [severity |-> LogWarning, logMsg |-> "SLOW OPERATION"]
        ELSE status

\* As DoClassify, with a transport error rendered by the closure of the
\* status test
DoClassifyErrAsStatus(err, response, tryDuration, threshold) ==
    LET assumed == [severity |-> LogInfo, logMsg |-> "SUCCESSFUL OPERATION"]
        timed == IF threshold > 0 /\ tryDuration > threshold
                 THEN [severity |-> LogWarning, logMsg |-> "SLOW OPERATION"]
                 ELSE assumed
    IN  IF err = NoError
        THEN IF IsErrorStatus(response.StatusCode)
             THEN [severity |-> LogError, logMsg |-> "OPERATION ERROR"]
             ELSE timed
        ELSE [severity |-> LogError, logMsg |-> "OPERATION ERROR"]

\* Lines 98-139: the severity and the logMsg closure the assignments leave
\* in place, in the order the code makes them.
DoClassify(err, response, tryDuration, threshold) ==
    LET assumed == [severity |-> LogInfo, logMsg |-> "SUCCESSFUL OPERATION"]
        timed == IF threshold > 0 /\ tryDuration > threshold
                 THEN [severity |-> LogWarning, logMsg |-> "SLOW OPERATION"]
                 ELSE assumed
    IN  IF err = NoError
        THEN IF IsErrorStatus(response.StatusCode)
             THEN [severity |-> LogError, logMsg |-> "OPERATION ERROR"]
             ELSE timed
        ELSE [severity |-> LogError, logMsg |-> "NETWORK ERROR"]

\* As LogMsg, with the closure of line 99 forcing the log too
LogMsgForcingAlways(logMsg, forceLog) ==
    CASE logMsg = "SUCCESSFUL OPERATION" ->
            [text |-> logMsg, response |-> TRUE, stack |-> FALSE, forceLog |-> TRUE]
      [] logMsg = "SLOW OPERATION" ->
            [text |-> logMsg, response |-> TRUE, stack |-> FALSE, forceLog |-> TRUE]
      [] logMsg = "OPERATION ERROR" ->
            [text |-> logMsg, response |-> TRUE, stack |-> TRUE, forceLog |-> TRUE]
      [] logMsg = "NETWORK ERROR" ->
            [text |-> logMsg, response |-> FALSE, stack |-> TRUE, forceLog |-> TRUE]

\* As LogMsg, with the closure of line 109 writing the stack too
LogMsgStackWhenSlow(logMsg, forceLog) ==
    CASE logMsg = "SUCCESSFUL OPERATION" ->
            [text |-> logMsg, response |-> TRUE, stack |-> FALSE, forceLog |-> forceLog]
      [] logMsg = "SLOW OPERATION" ->
            [text |-> logMsg, response |-> TRUE, stack |-> TRUE, forceLog |-> TRUE]
      [] logMsg = "OPERATION ERROR" ->
            [text |-> logMsg, response |-> TRUE, stack |-> TRUE, forceLog |-> TRUE]
      [] logMsg = "NETWORK ERROR" ->
            [text |-> logMsg, response |-> FALSE, stack |-> TRUE, forceLog |-> TRUE]

\* Running the logMsg closure: what it writes and what it leaves in forceLog.
LogMsg(logMsg, forceLog) ==
    CASE logMsg = "SUCCESSFUL OPERATION" ->
            [text |-> logMsg, response |-> TRUE, stack |-> FALSE, forceLog |-> forceLog]
      [] logMsg = "SLOW OPERATION" ->
            [text |-> logMsg, response |-> TRUE, stack |-> FALSE, forceLog |-> TRUE]
      [] logMsg = "OPERATION ERROR" ->
            [text |-> logMsg, response |-> TRUE, stack |-> TRUE, forceLog |-> TRUE]
      [] logMsg = "NETWORK ERROR" ->
            [text |-> logMsg, response |-> FALSE, stack |-> TRUE, forceLog |-> TRUE]

\* A call of p.node.Log or of pipeline.ForceLog
Emitted(channel, severity, msg) ==
    [op |-> channel, severity |-> severity, msg |-> msg]

\* As DoEmit, with the call of node.Log made before the call of ForceLog
DoEmitLogFirst(severity, logMsg, answer, tryNo, tryDuration, opDuration, logged) ==
    LET forceLog == FALSE
    IN  IF forceLog \/ answer
        THEN LET m == LogMsg(logMsg, forceLog)
                 msg == [head |-> "REQUEST/RESPONSE", Try |-> tryNo,
                         TryDuration |-> tryDuration, OpDuration |-> opDuration,
                         text |-> m.text, request |-> logged,
                         response |-> m.response, stack |-> m.stack]
             IN  [rendered |-> TRUE, forceLog |-> m.forceLog,
                  stacks |-> IF m.stack THEN 1 ELSE 0,
                  events |-> (IF answer
                              THEN <<Emitted("Log", severity, msg)>> ELSE <<>>)
                             \o (IF m.forceLog
                                 THEN <<Emitted("ForceLog", severity, msg)>> ELSE <<>>)]
        ELSE [rendered |-> FALSE, forceLog |-> forceLog, stacks |-> 0,
              events |-> <<>>]

\* Lines 141-154: the calls made on the two channels and the final forceLog.
\* forceLog is still false at line 141: only the closure sets it.
DoEmit(severity, logMsg, answer, tryNo, tryDuration, opDuration, logged) ==
    LET forceLog == FALSE
    IN  IF forceLog \/ answer
        THEN LET m == LogMsg(logMsg, forceLog)
                 msg == [head |-> "REQUEST/RESPONSE", Try |-> tryNo,
                         TryDuration |-> tryDuration, OpDuration |-> opDuration,
                         text |-> m.text, request |-> logged,
                         response |-> m.response, stack |-> m.stack]
             IN  [rendered |-> TRUE, forceLog |-> m.forceLog,
                  stacks |-> IF m.stack THEN 1 ELSE 0,
                  events |-> (IF m.forceLog
                              THEN <<Emitted("ForceLog", severity, msg)>> ELSE <<>>)
                             \o (IF answer
                                 THEN <<Emitted("Log", severity, msg)>> ELSE <<>>)]
        ELSE [rendered |-> FALSE, forceLog |-> forceLog, stacks |-> 0,
              events |-> <<>>]

\* As BeginEvents, with the outgoing request logged after the delegation
BeginEventsLogLast(infoAnswer, outgoing, live) ==
    <<[op |-> "Do", request |-> live]>>
    \o (IF infoAnswer THEN <<Emitted("Log", LogInfo, outgoing)>> ELSE <<>>)

\* Lines 84-93: the outgoing request is logged if ShouldLog(LogInfo) said
\* yes, then the request goes to the next stage.
BeginEvents(infoAnswer, outgoing, live) ==
    (IF infoAnswer THEN <<Emitted("Log", LogInfo, outgoing)>> ELSE <<>>)
    \o <<[op |-> "Do", request |-> live]>>

\* As DoReturn, with the error dropped once the attempt is logged
DoReturnWithoutError(response, err) == [response |-> response, err |-> NoError]

\* Line 155
DoReturn(response, err) == [response |-> response, err |-> err]

\* As NextTry, counting the try twice
NextTryTwice(t) == t + 2

\* Lines 78-81
NextTry(t) == t + 1

\* As OperationStartAt, without the test of line 79
OperationStartEveryTry(tryNo, start, t) == t

OperationStartAt(tryNo, start, t) == IF tryNo = 1 THEN t ELSE start

----------------------------------------------------------------------------
(* The inputs. *)

Param(name, value) == name \o <<"=">> \o value

ParamNames == {Sig, <<"S", "i", "g">>, <<"b">>, <<"A">>}
ParamValues == {<<"K">>, <<"v">>, <<"q", "?", "s", "i", "g", "=", "z">>}
Params == {Param(n, v) : n \in ParamNames, v \in ParamValues}

\* Every query of at most MaxParams parameters
Queries == {Join(ps) : ps \in UNION {[1..n -> Params] : n \in 0..MaxParams}}

\* The queries of the request handed to the policy: no sig, sig first, sig
\* later.
RequestQueries ==
    {Param(<<"A">>, <<"v">>),
     Join(<<Param(Sig, <<"K">>), Param(<<"b">>, <<"v">>)>>),
     Join(<<Param(<<"b">>, <<"v">>), Param(<<"S", "i", "g">>, <<"K">>)>>)}

Callers == 1..NumCallers

----------------------------------------------------------------------------
(* The state machine. *)

\* The locals of an activation of Do before line 78
IdleCall ==
    [pc |-> "idle", invocation |-> 0, loadedTry |-> 0,
     tryStart |-> 0, tryDuration |-> 0, opDuration |-> 0,
     response |-> NilResponse, err |-> NoError,
     downstream |-> [response |-> NilResponse, err |-> NoError],
     sentQuery |-> <<>>,
     severity |-> LogInfo, logMsg |-> "SUCCESSFUL OPERATION",
     infoAnswer |-> FALSE, answer |-> FALSE,
     forceLog |-> FALSE, rendered |-> FALSE, stacks |-> 0,
     events |-> <<>>,
     ret |-> [response |-> NilResponse, err |-> NoError]]

NoRedaction == [called |-> FALSE, in |-> <<>>, found |-> FALSE, out |-> <<>>]

\* No invocation of Do yet
NoInvocation == [invocations |-> 0, overlapped |-> FALSE]

\* stack() not called
NoCapture == [pc |-> "idle", size |-> 0, buf |-> 0, n |-> 0, ret |-> 0]

\* A policy fresh from requestLogPolicyFactory.New, and the request of the
\* operation it will instrument.
Init ==
    /\ options \in Thresholds
    /\ o = NewRequestLogPolicyFactory(options)
    /\ try = 0
    /\ operationStart = -1          \* the zero time.Time, before every instant
    /\ now = 0
    /\ rawQuery \in RequestQueries
    /\ callerQuery = rawQuery
    /\ call = [c \in Callers |-> IdleCall]
    /\ classified = {}
    /\ finished = <<>>
    /\ contract = NoInvocation
    /\ redaction = NoRedaction
    /\ capture = NoCapture

\* The retry driver invokes its attempts one after the other.
Sequential(c) == \A d \in Callers \ {c} : call[d].pc \in {"idle", "done"}

\* Lines 78-93: count the try, log the outgoing request if the node's
\* ShouldLog(LogInfo) answers yes, read the clock and hand the request to the
\* next stage.
DoBegin(c) ==
    /\ call[c].pc \in {"idle", "done"}
    /\ Sequential(c)
    /\ try < MaxTries
    /\ try' = NextTry(try)
    /\ operationStart' = OperationStartAt(try', operationStart, now)
    /\ LET p == prepareRequestForLogging(rawQuery)
           outgoing == [head |-> "OUTGOING REQUEST", Try |-> try',
                        request |-> p.logged]
       IN  \E infoAnswer \in BOOLEAN, t \in now..MaxClock :
             LET live == IF infoAnswer THEN p.live ELSE rawQuery
             IN  /\ now' = t
                 /\ rawQuery' = live
                 /\ call' = [call EXCEPT ![c] =
                       [IdleCall EXCEPT
                          !.pc = "next",
                          !.infoAnswer = infoAnswer,
                          !.tryStart = t,
                          !.sentQuery = live,
                          !.events = BeginEvents(infoAnswer, outgoing, live)]]
    /\ UNCHANGED <<options, o, callerQuery, redaction, capture>>

\* The next stage returns.
NextStage(c) ==
    /\ call[c].pc = "next"
    /\ \E r \in Outcomes :
         call' = [call EXCEPT ![c].pc = "returned",
                              ![c].response = r.response,
                              ![c].err = r.err,
                              ![c].downstream = r]
    /\ UNCHANGED <<options, o, try, operationStart, now, rawQuery, callerQuery,
                   redaction, capture>>

\* Lines 94-155: time the try, classify it, ask the node's ShouldLog about
\* the severity, log and return.
DoFinish(c) ==
    /\ call[c].pc = "returned"
    /\ LET f == call[c]
           tryEnd == now
           tryDuration == tryEnd - f.tryStart
           opDuration == tryEnd - operationStart
           cls == DoClassify(f.err, f.response, tryDuration, o)
           p == prepareRequestForLogging(rawQuery)
       IN  \E answer \in BOOLEAN :
             LET e == DoEmit(cls.severity, cls.logMsg, answer, try,
                             tryDuration, opDuration, p.logged)
             IN  /\ rawQuery' = IF e.rendered THEN p.live ELSE rawQuery
                 /\ call' = [call EXCEPT ![c] =
                       [f EXCEPT
                          !.pc = "done",
                          !.tryDuration = tryDuration,
                          !.opDuration = opDuration,
                          !.severity = cls.severity,
                          !.logMsg = cls.logMsg,
                          !.answer = answer,
                          !.forceLog = e.forceLog,
                          !.rendered = e.rendered,
                          !.stacks = e.stacks,
                          !.events = f.events \o e.events,
                          !.ret = DoReturn(f.response, f.err)]]
    /\ UNCHANGED <<options, o, try, operationStart, now, callerQuery, redaction,
                   capture>>

\* Time passes.
Tick ==
    /\ now < MaxClock
    /\ now' = now + 1
    /\ UNCHANGED <<options, o, try, operationStart, rawQuery, callerQuery,
                   call, historyVars, redaction, capture>>

\* The retry driver that owns the policy: it makes its calls one at a time.
Driver == CHOOSE c \in Callers : \A d \in Callers : c <= d

Next ==
    \/ DoBegin(Driver) /\ UNCHANGED historyVars
    \/ NextStage(Driver) /\ UNCHANGED historyVars
    \/ DoFinish(Driver) /\ UNCHANGED historyVars
    \/ Tick

Spec == Init /\ [][Next]_vars

----------------------------------------------------------------------------
(* The redactor on its own: one call on any query of the input set. *)

InitRedact ==
    /\ options = 0
    /\ o = NewRequestLogPolicyFactory(options)
    /\ try = 0
    /\ operationStart = -1
    /\ now = 0
    /\ rawQuery = <<>>
    /\ callerQuery = <<>>
    /\ call = [c \in Callers |-> IdleCall]
    /\ classified = {}
    /\ finished = <<>>
    /\ contract = NoInvocation
    /\ redaction \in {[NoRedaction EXCEPT !.in = q] : q \in Queries}
    /\ capture = NoCapture

Redact ==
    /\ ~redaction.called
    /\ LET r == redactSigQueryParam(redaction.in)
       IN  redaction' = [redaction EXCEPT !.called = TRUE,
                                          !.found = r.found,
                                          !.out = r.query]
    /\ UNCHANGED <<policyVars, capture>>

NextRedact == Redact

SpecRedact == InitRedact /\ [][NextRedact]_vars

----------------------------------------------------------------------------
(* What the claims about the redactor speak of: the parameters of a query *)
(* as a reader of the log sees them.                                       *)

\* The parameters of a query, in order, as written
ParamsOf(q) ==
    LET st == Settings(q)
    IN  [i \in 1..Len(st) |->
            LET c == Cut(st[i], "=") IN [name |-> c.before, value |-> c.after]]

\* Percent-decoding of the three escapes Encode writes here
RECURSIVE Unescape(_)
Unescape(s) ==
    IF s = <<>> THEN <<>>
    ELSE IF Head(s) = "%" /\ Len(s) >= 3
         THEN LET code == SubSeq(s, 2, 3)
                  ch == CASE code = <<"3", "F">> -> "?"
                          [] code = <<"3", "D">> -> "="
                          [] OTHER -> "&"
              IN  <<ch>> \o Unescape(SubSeq(s, 4, Len(s)))
         ELSE <<Head(s)>> \o Unescape(Tail(s))

\* The parameters of an encoded query, decoded
DecodedParamsOf(q) ==
    LET ps == ParamsOf(q)
    IN  [i \in 1..Len(ps) |->
            [name |-> Unescape(ps[i].name), value |-> Unescape(ps[i].value)]]

IsSigName(name) == EqualFold(name, Sig)

HasSigParam(q) == \E i \in 1..Len(ParamsOf(q)) : IsSigName(ParamsOf(q)[i].name)

NonSigParams(ps) == SelectSeq(ps, LAMBDA p : ~IsSigName(p.name))

SigParams(ps) == SelectSeq(ps, LAMBDA p : IsSigName(p.name))

\* A secret that no other parameter of the query happens to spell
IsDistinctSecret(q, secret) ==
    /\ secret # <<>>
    /\ \A i \in 1..Len(NonSigParams(ParamsOf(q))) :
          LET p == NonSigParams(ParamsOf(q))[i]
          IN  ~Contains(p.name, secret) /\ ~Contains(p.value, secret)

----------------------------------------------------------------------------
(* C2 (as claimed): a query with a parameter named sig, in any letter case *)
(* and at any position, the first included, is reported found, every sig   *)
(* value of the output is REDACTED and the secret does not occur in it.    *)
(* The code misses a sig that is the first parameter: RawQuery holds no    *)
(* "?", so only "&sig=" can match.                                         *)
C2_EverySigRedacted ==
    (redaction.called /\ HasSigParam(redaction.in)) =>
        /\ redaction.found
        /\ \A i \in 1..Len(SigParams(DecodedParamsOf(redaction.out))) :
              SigParams(DecodedParamsOf(redaction.out))[i].value = REDACTED
        /\ \A i \in 1..Len(SigParams(ParamsOf(redaction.in))) :
              LET secret == SigParams(ParamsOf(redaction.in))[i].value
              IN  IsDistinctSecret(redaction.in, secret)
                      => ~Contains(redaction.out, secret)

(* C3 (as claimed): a query with no parameter named sig comes back         *)
(* character for character, with found = false.  The code returns the      *)
(* lowercased string, and reports found for a "?sig=" inside a value.      *)
C3_NoSigUnchanged ==
    (redaction.called /\ ~HasSigParam(redaction.in)) =>
        (~redaction.found /\ redaction.out = redaction.in)

(* C4 (as claimed): when the redactor reports found, the parameters not    *)
(* named sig appear in the output with the same names and values and in    *)
(* the same relative order.  The code parses the lowercased query and      *)
(* Encode sorts by key.                                                    *)
C4_OthersPreserved ==
    (redaction.called /\ redaction.found) =>
        NonSigParams(DecodedParamsOf(redaction.out))
            = NonSigParams(ParamsOf(redaction.in))

----------------------------------------------------------------------------
(* What the claims about Do speak of. *)

Done(c) == call[c].pc = "done"

\* The calls of pipeline.ForceLog the activation has made
ForcedRecords(c) == SelectSeq(call[c].events, LAMBDA e : e.op = "ForceLog")

\* The severity the decision table of the specification gives, first match
\* winning
TableSeverity(err, response, tryDuration, threshold) ==
    IF err # NoError THEN LogError
    ELSE IF response.StatusCode \in 500..599 THEN LogError
    ELSE IF response.StatusCode \in 400..499
            /\ response.StatusCode \notin {404, 409, 412, 416} THEN LogError
    ELSE IF threshold > 0 /\ tryDuration > threshold THEN LogWarning
    ELSE LogInfo

(* C1 (as claimed): an attempt classified Error, or Warning by a threshold *)
(* breach, reaches the forced channel even when ShouldLog rejects its      *)
(* severity.  The code sets forceLog only inside the logMsg closure, which *)
(* runs only when ShouldLog accepted the severity.                         *)
C1_ForcedOnErrorOrSlow ==
    \A c \in Callers :
        (Done(c) /\ call[c].severity \in {LogError, LogWarning}) =>
            \E i \in 1..Len(ForcedRecords(c)) :
                ForcedRecords(c)[i].severity = call[c].severity

(* C5: the severity Do classifies an attempt under is the one of the       *)
(* decision table: Error for a transport error, a 5xx or a 4xx outside     *)
(* 404/409/412/416, else Warning for a try longer than a positive          *)
(* threshold, else Info.                                                   *)
C5_SeverityFirstMatch ==
    \A c \in Callers :
        Done(c) =>
            call[c].severity
                = TableSeverity(call[c].err, call[c].response, call[c].tryDuration, o)

\* An attempt both slow and answered 500 is classified Error.
C5_Witness ==
    \E c \in Callers :
        /\ Done(c)
        /\ o > 0 /\ call[c].tryDuration > o
        /\ call[c].err = NoError /\ call[c].response.StatusCode = 500
        /\ call[c].severity = LogError

(* C6: a policy configured with threshold 0 classifies as the table does   *)
(* with threshold 3; with a negative threshold no attempt is a Warning;    *)
(* with a positive threshold a try lasting exactly the threshold is not a  *)
(* Warning.                                                                *)
C6_ThresholdConfiguration ==
    \A c \in Callers :
        Done(c) =>
            /\ options = 0 =>
                  call[c].severity
                      = TableSeverity(call[c].err, call[c].response,
                                      call[c].tryDuration, 3)
            /\ options < 0 => call[c].severity # LogWarning
            /\ (options > 0 /\ call[c].tryDuration = options) =>
                  call[c].severity # LogWarning

\* Under the default, a 200 after 4 seconds is a Warning.
C6_Witness ==
    \E c \in Callers :
        /\ Done(c)
        /\ options = 0
        /\ call[c].tryDuration = 4
        /\ call[c].err = NoError /\ call[c].response.StatusCode = 200
        /\ call[c].severity = LogWarning

\* A step in which a caller enters Do
Enters(c) == call[c].pc \in {"idle", "done"} /\ call'[c].pc = "next"

(* C7: the first Do call sets try to 1 and operationStart to the clock;    *)
(* every later call adds exactly 1 to try and leaves operationStart as it  *)
(* was; nothing else changes either.                                       *)
C7_TryAndOperationStart ==
    [][IF \E c \in Callers : Enters(c)
       THEN /\ try' = try + 1
            /\ IF try = 0
               THEN try' = 1 /\ operationStart' = now
               ELSE operationStart' = operationStart
       ELSE UNCHANGED <<try, operationStart>>]_vars

\* A second attempt is under way, begun after the operation started.
C7_Witness ==
    \E c \in Callers :
        /\ call[c].pc = "next"
        /\ try = 2
        /\ operationStart < call[c].tryStart

(* C8: what Do returns is the pair the next stage returned, whatever the   *)
(* classification and whether or not a record was emitted.                 *)
C8_OutcomeUnchanged ==
    \A c \in Callers : Done(c) => call[c].ret = call[c].downstream

\* A transport error was logged on both channels, and returned.
C8_Witness ==
    \E c \in Callers :
        /\ Done(c)
        /\ call[c].downstream.err # NoError
        /\ call[c].forceLog /\ call[c].answer
        /\ call[c].ret.err = call[c].downstream.err

(* C9: the live request keeps the caller's query: the next stage receives  *)
(* it unredacted and the caller finds it unchanged after Do returns.       *)
C9_LiveRequestUntouched ==
    /\ rawQuery = callerQuery
    /\ \A c \in Callers :
          call[c].pc # "idle" => call[c].sentQuery = callerQuery

\* Both records of an attempt were rendered from a redacted copy.
C9_Witness ==
    \E c \in Callers :
        /\ Done(c)
        /\ call[c].infoAnswer /\ call[c].rendered
        /\ redactSigQueryParam(callerQuery).found
        /\ \A i \in 1..Len(call[c].events) :
              call[c].events[i].op # "Do"
                  => call[c].events[i].msg.request # callerQuery
        /\ call[c].sentQuery = callerQuery

----------------------------------------------------------------------------
(* The same policy, with the classification of every finished attempt      *)
(* kept: its four inputs and the (severity, force) pair it ended with.     *)

Classification(f) ==
    [errPresent |-> f.err # NoError,
     status |-> f.response.StatusCode,
     tryDuration |-> f.tryDuration,
     threshold |-> o,
     severity |-> f.severity,
     force |-> f.forceLog]

DoFinishRecorded(c) ==
    /\ DoFinish(c)
    /\ classified' = classified \cup {Classification(call'[c])}
    /\ UNCHANGED <<finished, contract>>

\* One request and the default threshold are enough: the classification
\* does not read the query.
InitPair == Init /\ options = 0 /\ rawQuery = Param(<<"A">>, <<"v">>)

NextPair ==
    \/ DoBegin(Driver) /\ UNCHANGED historyVars
    \/ NextStage(Driver) /\ UNCHANGED historyVars
    \/ DoFinishRecorded(Driver)
    \/ Tick

SpecPair == InitPair /\ [][NextPair]_vars

SameInputs(a, b) ==
    /\ a.errPresent = b.errPresent
    /\ a.status = b.status
    /\ a.tryDuration = b.tryDuration
    /\ a.threshold = b.threshold

(* C10 (as claimed): two attempts with the same (error present, status,    *)
(* try duration, threshold) end with the same (severity, force) pair,      *)
(* whatever ShouldLog answered.  In the code force follows the answer of   *)
(* ShouldLog, for the reason given under C1.                               *)
C10_SameInputsSamePair ==
    \A a, b \in classified :
        SameInputs(a, b) => (a.severity = b.severity /\ a.force = b.force)

----------------------------------------------------------------------------
(* The records of an attempt, by kind. *)

IsOutgoing(e) == e.op # "Do" /\ e.msg.head = "OUTGOING REQUEST"

IsPost(e) == e.op # "Do" /\ e.msg.head = "REQUEST/RESPONSE"

Delegated(c) == call[c].pc \in {"next", "returned", "done"}

\* Where in the events of an activation the request went to the next stage
DoAt(c) == CHOOSE i \in 1..Len(call[c].events) : call[c].events[i].op = "Do"

(* C11: the OUTGOING REQUEST record is emitted, at Info on the filtered    *)
(* channel, exactly when ShouldLog(LogInfo) said yes, and before the       *)
(* request goes to the next stage; a REQUEST/RESPONSE record of the        *)
(* attempt is emitted only once the next stage has returned.               *)
C11_OutgoingBeforePostAfter ==
    \A c \in Callers :
        Delegated(c) =>
            LET ev == call[c].events
            IN  /\ (\E i \in 1..Len(ev) : IsOutgoing(ev[i])) <=> call[c].infoAnswer
                /\ \A i \in 1..Len(ev) :
                      IsOutgoing(ev[i]) =>
                          /\ ev[i].op = "Log"
                          /\ ev[i].severity = LogInfo
                          /\ i < DoAt(c)
                /\ \A i \in 1..Len(ev) :
                      IsPost(ev[i]) => (i > DoAt(c) /\ call[c].pc = "done")

\* An attempt with both records: the outgoing one, the delegation, the
\* post-attempt one.
C11_Witness ==
    \E c \in Callers :
        /\ Done(c)
        /\ call[c].infoAnswer
        /\ \E i, j \in 1..Len(call[c].events) :
              /\ IsOutgoing(call[c].events[i])
              /\ IsPost(call[c].events[j])
              /\ i < DoAt(c) /\ DoAt(c) < j

----------------------------------------------------------------------------
(* The post-attempt record on the two channels. *)

\* The REQUEST/RESPONSE records the activation has handed to a channel
PostRecords(c, channel) ==
    SelectSeq(call[c].events, LAMBDA e : IsPost(e) /\ e.op = channel)

(* C12: the post-attempt record reaches node.Log exactly when ShouldLog    *)
(* accepted the severity the attempt was classified under, with that       *)
(* severity; an attempt classified Info, the allow-listed 404, 409, 412    *)
(* and 416 within the threshold included, never reaches ForceLog.          *)
C12_FilteredIffAccepted ==
    \A c \in Callers :
        Done(c) =>
            /\ (Len(PostRecords(c, "Log")) > 0) <=> call[c].answer
            /\ \A i \in 1..Len(PostRecords(c, "Log")) :
                  PostRecords(c, "Log")[i].severity = call[c].severity
            /\ (call[c].severity = LogInfo) => Len(PostRecords(c, "ForceLog")) = 0

\* A 404 within the threshold, accepted by ShouldLog: on node.Log, not forced.
C12_Witness ==
    \E c \in Callers :
        /\ Done(c)
        /\ call[c].err = NoError /\ call[c].response.StatusCode = StatusNotFound
        /\ call[c].severity = LogInfo
        /\ call[c].answer
        /\ Len(PostRecords(c, "Log")) = 1
        /\ Len(PostRecords(c, "ForceLog")) = 0

\* The message variant the specification's list gives an attempt
TableVariant(err, response, tryDuration, threshold) ==
    IF err # NoError \/ response.nil THEN "NETWORK ERROR"
    ELSE IF response.StatusCode \in 500..599 THEN "OPERATION ERROR"
    ELSE IF response.StatusCode \in 400..499
            /\ response.StatusCode \notin {404, 409, 412, 416} THEN "OPERATION ERROR"
    ELSE IF threshold > 0 /\ tryDuration > threshold THEN "SLOW OPERATION"
    ELSE "SUCCESSFUL OPERATION"

(* C13: every record of a logged attempt carries one and the same message  *)
(* variant, the one of the attempt's classification: NETWORK ERROR without *)
(* a response, OPERATION ERROR for a 5xx or a 4xx outside 404/409/412/416, *)
(* SLOW OPERATION for a slow try without an error, SUCCESSFUL OPERATION    *)
(* otherwise; only a record with a response shows one.                     *)
C13_VariantMatchesClassification ==
    \A c \in Callers :
        Done(c) =>
            LET ev == call[c].events
                variant == TableVariant(call[c].err, call[c].response,
                                        call[c].tryDuration, o)
            IN  /\ call[c].rendered <=> \E i \in 1..Len(ev) : IsPost(ev[i])
                /\ \A i \in 1..Len(ev) :
                      IsPost(ev[i]) =>
                          /\ ev[i].msg.text = variant
                          /\ ev[i].msg.response <=> (variant # "NETWORK ERROR")
                          /\ (variant = "SLOW OPERATION") <=> (ev[i].severity = LogWarning)
                          /\ (variant \in {"NETWORK ERROR", "OPERATION ERROR"})
                                <=> (ev[i].severity = LogError)

\* A slow try that ended in a transport error, rendered as NETWORK ERROR
C13_Witness ==
    \E c \in Callers :
        /\ Done(c)
        /\ o > 0 /\ call[c].tryDuration > o
        /\ call[c].err # NoError
        /\ call[c].rendered
        /\ \E i \in 1..Len(call[c].events) :
              /\ IsPost(call[c].events[i])
              /\ call[c].events[i].msg.text = "NETWORK ERROR"

(* C14: stack() is called only for an attempt classified Error whose       *)
(* record reaches a channel; when no channel takes the record, no message  *)
(* is rendered and stack() is not called; for an attempt classified Info   *)
(* or Warning stack() is never called.                                     *)
C14_StackOnlyForEmittedError ==
    \A c \in Callers :
        Done(c) =>
            LET emitted == Len(PostRecords(c, "Log")) + Len(PostRecords(c, "ForceLog"))
            IN  /\ call[c].stacks > 0 => (call[c].severity = LogError /\ emitted > 0)
                /\ emitted = 0 => (~call[c].rendered /\ call[c].stacks = 0)
                /\ call[c].severity \in {LogInfo, LogWarning} => call[c].stacks = 0
                /\ \A i \in 1..Len(call[c].events) :
                      (IsPost(call[c].events[i]) /\ call[c].events[i].msg.stack)
                          => call[c].stacks > 0

\* An attempt answered 500 whose record was emitted with the stack
C14_Witness ==
    \E c \in Callers :
        /\ Done(c)
        /\ call[c].severity = LogError
        /\ call[c].response.StatusCode = 500
        /\ call[c].stacks = 1
        /\ Len(PostRecords(c, "Log")) = 1
        /\ PostRecords(c, "Log")[1].msg.stack

(* C17: of one attempt each channel receives the post-attempt record at    *)
(* most once; when both receive it, the severity and the message are the   *)
(* same and the call of ForceLog comes before the call of node.Log.        *)
C17_OncePerChannelForcedFirst ==
    \A c \in Callers :
        Done(c) =>
            LET ev == call[c].events
            IN  /\ Len(PostRecords(c, "Log")) <= 1
                /\ Len(PostRecords(c, "ForceLog")) <= 1
                /\ \A i, j \in 1..Len(ev) :
                      (IsPost(ev[i]) /\ ev[i].op = "ForceLog"
                       /\ IsPost(ev[j]) /\ ev[j].op = "Log") =>
                          /\ ev[i].severity = ev[j].severity
                          /\ ev[i].msg = ev[j].msg
                          /\ i < j

\* A slow try accepted by ShouldLog: forced first, then on node.Log
C17_Witness ==
    \E c \in Callers :
        /\ Done(c)
        /\ call[c].severity = LogWarning
        /\ Len(PostRecords(c, "ForceLog")) = 1
        /\ Len(PostRecords(c, "Log")) = 1

----------------------------------------------------------------------------
(* stack(), lines 158-167, on its own: one call, for a goroutine whose     *)
(* stack trace is capture.size bytes long.                                 *)

\* Line 159: the length of the first buffer
InitialBufLen == 1024

\* runtime.Stack(buf, false): the trace is written into buf, cut to its
\* length, and the number of bytes written is returned
RuntimeStack(bufLen, size) == IF size < bufLen THEN size ELSE bufLen

\* As StackFits, with a full buffer taken for a whole trace
StackFitsOrFills(n, bufLen) == n <= bufLen

\* Line 162
StackFits(n, bufLen) == n < bufLen

\* Line 165
GrownBufLen(bufLen) == 2 * bufLen

InitStack ==
    /\ options = 0
    /\ o = NewRequestLogPolicyFactory(options)
    /\ try = 0
    /\ operationStart = -1
    /\ now = 0
    /\ rawQuery = <<>>
    /\ callerQuery = <<>>
    /\ call = [c \in Callers |-> IdleCall]
    /\ classified = {}
    /\ finished = <<>>
    /\ contract = NoInvocation
    /\ redaction = NoRedaction
    /\ capture \in {[NoCapture EXCEPT !.size = s] : s \in 0..MaxStackLen}

\* Line 159
StackMake ==
    /\ capture.pc = "idle"
    /\ capture' = [capture EXCEPT !.pc = "loop", !.buf = InitialBufLen]
    /\ UNCHANGED <<policyVars, redaction>>

\* Line 161
StackCapture ==
    /\ capture.pc = "loop"
    /\ capture' = [capture EXCEPT !.pc = "test",
                                  !.n = RuntimeStack(capture.buf, capture.size)]
    /\ UNCHANGED <<policyVars, redaction>>

\* Lines 162-163: buf[:n] is returned
StackReturn ==
    /\ capture.pc = "test"
    /\ StackFits(capture.n, capture.buf)
    /\ capture' = [capture EXCEPT !.pc = "done", !.ret = capture.n]
    /\ UNCHANGED <<policyVars, redaction>>

\* Line 165, and back to line 160
StackGrow ==
    /\ capture.pc = "test"
    /\ ~StackFits(capture.n, capture.buf)
    /\ capture' = [capture EXCEPT !.pc = "loop", !.buf = GrownBufLen(capture.buf)]
    /\ UNCHANGED <<policyVars, redaction>>

NextStack == StackMake \/ StackCapture \/ StackReturn \/ StackGrow

\* The goroutine that called stack() keeps running.
SpecStack == InitStack /\ [][NextStack]_vars /\ WF_vars(NextStack)

RECURSIVE IsDoublingOf(_, _)
\* x is base times a power of two
IsDoublingOf(base, x) ==
    \/ x = base
    \/ x > base /\ x % 2 = 0 /\ IsDoublingOf(base, x \div 2)

(* C15: stack() returns, whatever the length of the stack trace; what it   *)
(* returns is the whole trace, shorter than the last buffer, whose length  *)
(* is 1024 times a power of two; the buffer starts at 1024 bytes and is    *)
(* only ever doubled, and only when the bytes written are not fewer than   *)
(* its length.                                                             *)
C15_StackTerminatesUntruncated ==
    /\ <>(capture.pc = "done")
    /\ [](capture.pc = "done" =>
              /\ capture.ret = capture.size
              /\ capture.ret < capture.buf
              /\ IsDoublingOf(1024, capture.buf))
    /\ [][/\ (capture.pc = "idle" /\ capture'.pc # "idle") => capture'.buf = 1024
          /\ (capture.pc # "idle" /\ capture'.buf # capture.buf) =>
                 /\ capture'.buf = 2 * capture.buf
                 /\ ~(capture.n < capture.buf)]_vars

\* A trace longer than 2048 bytes returned whole from the 4096-byte buffer
C15_Witness ==
    /\ capture.pc = "done"
    /\ capture.size > 2048
    /\ capture.buf = 4096
    /\ capture.ret = capture.size

----------------------------------------------------------------------------
(* The durations of the attempts of one policy, kept in the order the      *)
(* attempts finished.                                                      *)

\* Lines 94-96, as the finished attempt leaves them
Durations(f) ==
    [try |-> try, tryDuration |-> f.tryDuration, opDuration |-> f.opDuration]

DoFinishTimed(c) ==
    /\ DoFinish(c)
    /\ finished' = Append(finished, Durations(call'[c]))
    /\ UNCHANGED <<classified, contract>>

\* One request and the default threshold are enough: the durations read
\* neither.
InitTiming == Init /\ options = 0 /\ rawQuery = Param(<<"A">>, <<"v">>)

NextTiming ==
    \/ DoBegin(Driver) /\ UNCHANGED historyVars
    \/ NextStage(Driver) /\ UNCHANGED historyVars
    \/ DoFinishTimed(Driver)
    \/ Tick

SpecTiming == InitTiming /\ [][NextTiming]_vars

(* C16: the clock never going back, the try duration of every attempt is   *)
(* at least 0, its operation duration is at least its try duration, and    *)
(* the operation duration of an attempt is at least the one of every       *)
(* earlier attempt of the same policy.                                     *)
C16_DurationsOrdered ==
    /\ \A i \in 1..Len(finished) :
          /\ finished[i].tryDuration >= 0
          /\ finished[i].opDuration >= finished[i].tryDuration
    /\ \A i, j \in 1..Len(finished) :
          i < j => finished[i].opDuration <= finished[j].opDuration

\* Two attempts with time passing in each: the operation duration of the
\* second exceeds its try duration and the operation duration of the first.
C16_Witness ==
    /\ Len(finished) = 2
    /\ finished[1].try = 1 /\ finished[2].try = 2
    /\ finished[1].tryDuration > 0
    /\ finished[2].tryDuration > 0
    /\ finished[2].tryDuration < finished[2].opDuration
    /\ finished[1].opDuration < finished[2].opDuration

----------------------------------------------------------------------------
(* The policy without the single-writer contract: any caller may invoke Do *)
(* while another activation is under way.  p.try is a plain int32, so the  *)
(* p.try++ of line 78 is a load and a store that other activations may     *)
(* come between, and every later p.try is a fresh read of the field.       *)

Active(c) == call[c].pc \notin {"idle", "done"}

\* Line 78, first half: p.try is loaded.
DoLoadTry(c) ==
    /\ call[c].pc \in {"idle", "done"}
    /\ contract.invocations < MaxTries
    /\ contract' = [invocations |-> contract.invocations + 1,
                    overlapped |-> contract.overlapped
                                   \/ \E d \in Callers \ {c} : Active(d)]
    /\ call' = [call EXCEPT ![c] =
                  [IdleCall EXCEPT !.pc = "incr",
                                   !.invocation = contract.invocations + 1,
                                   !.loadedTry = try]]
    /\ UNCHANGED <<options, o, try, operationStart, now, rawQuery, callerQuery,
                   classified, finished, redaction, capture>>

\* Line 78, second half: the incremented value is stored.
DoStoreTry(c) ==
    /\ call[c].pc = "incr"
    /\ try' = NextTry(call[c].loadedTry)
    /\ call' = [call EXCEPT ![c].pc = "counted"]
    /\ UNCHANGED <<options, o, operationStart, now, rawQuery, callerQuery,
                   historyVars, redaction, capture>>

\* Lines 79-93.  The test of line 79 sees the value the activation stored
\* or the field as it is now; line 86, after the call of ShouldLog, reads
\* the field.
DoBeginOverlapped(c) ==
    /\ call[c].pc = "counted"
    /\ \E seen \in {NextTry(call[c].loadedTry), try} :
         operationStart' = OperationStartAt(seen, operationStart, now)
    /\ LET p == prepareRequestForLogging(rawQuery)
           outgoing == [head |-> "OUTGOING REQUEST", Try |-> try,
                        request |-> p.logged]
       IN  \E infoAnswer \in BOOLEAN :
             LET live == IF infoAnswer THEN p.live ELSE rawQuery
             IN  /\ rawQuery' = live
                 /\ call' = [call EXCEPT ![c] =
                       [@ EXCEPT
                          !.pc = "next",
                          !.infoAnswer = infoAnswer,
                          !.tryStart = now,
                          !.sentQuery = live,
                          !.events = BeginEvents(infoAnswer, outgoing, live)]]
    /\ UNCHANGED <<options, o, try, now, callerQuery, historyVars, redaction,
                   capture>>

\* The Try numbers read neither the clock nor the outcome: the overlapping
\* invocations are followed at one instant, each ending in a 200 or in a
\* transport error.
OverlapOutcomes ==
    {r \in Outcomes : r.err # NoError \/ r.response.StatusCode = 200}

InitOverlap == Init /\ options = 0 /\ rawQuery = Param(<<"A">>, <<"v">>)

NextOverlap ==
    \/ \E c \in Callers : DoLoadTry(c)
    \/ \E c \in Callers : DoStoreTry(c)
    \/ \E c \in Callers : DoBeginOverlapped(c)
    \/ \E c \in Callers :
          /\ NextStage(c)
          /\ call'[c].downstream \in OverlapOutcomes
          /\ UNCHANGED historyVars
    \/ \E c \in Callers : DoFinish(c) /\ UNCHANGED historyVars

SpecOverlap == InitOverlap /\ [][NextOverlap]_vars

\* The Try numbers in the records of an activation
OutgoingTries(c) ==
    {call[c].events[i].msg.Try :
        i \in {j \in 1..Len(call[c].events) : IsOutgoing(call[c].events[j])}}

PostTries(c) ==
    {call[c].events[i].msg.Try :
        i \in {j \in 1..Len(call[c].events) : IsPost(call[c].events[j])}}

(* C18: as long as no two invocations of Do on the policy have overlapped, *)
(* the Try number in the REQUEST/RESPONSE record of an attempt is the one  *)
(* in its OUTGOING REQUEST record, and both are the number of invocations  *)
(* of Do up to and including this one.  (Once two invocations overlap the  *)
(* numbers can differ: C18_Witness.)                                       *)
C18_TryNumbersAgreeWhenSequential ==
    \A c \in Callers :
        (Delegated(c) /\ ~contract.overlapped) =>
            /\ OutgoingTries(c) \subseteq {call[c].invocation}
            /\ PostTries(c) \subseteq {call[c].invocation}

\* Two overlapping invocations: an attempt whose OUTGOING REQUEST record
\* says Try=1 and whose REQUEST/RESPONSE record says Try=2.
C18_Witness ==
    \E c \in Callers :
        /\ Done(c)
        /\ contract.overlapped
        /\ call[c].invocation = 1
        /\ OutgoingTries(c) = {1}
        /\ PostTries(c) = {2}

====
